---- MODULE Spec2Model ----
(***************************************************************************)
(* Studien-Dashboard (studien-dashboard.py): the grading data model        *)
(* (Pruefungsleistung, Modul, Semester, Studiengang, User), the            *)
(* DashboardController and the data-assembly part of                       *)
(* DashboardVisualization.generate_html_dashboard.                         *)
(*                                                                         *)
(* Grades are Python floats with one decimal; they are modelled as         *)
(* integers in tenths (2.3 is 23).  Objects live in heaps (sequences of    *)
(* records); a reference is the index of the object in its heap.           *)
(***************************************************************************)
EXTENDS Integers, Sequences, FiniteSets, TLC

\* ------------------------------------------------------------------ bounds
MaxPL == 2
MaxModul == 2
MaxSemester == 2
MaxStudiengang == 2
MaxUser == 2
MaxLen == 2

\* ------------------------------------------------------- values and inputs
\* Python's None (for optional grades and optional references).
None == -1

\* IUBewertungsmaßstab.NOTEN_SKALA.keys(), in tenths.
gueltige_noten == {10, 13, 17, 20, 23, 27, 30, 33, 37, 40, 50}

BESTANDEN_GRENZE == 40

\* Grades outside NOTEN_SKALA that callers pass in (0.7 and 4.5).
UngueltigeNoten == {7, 45}

\* Grades that callers pass to the setter: None and members of the scale.
NoteInputs == {None, 20, 33, 40, 50}

\* Grades entered later into the sample data.
SampleNoteInputs == NoteInputs \cup UngueltigeNoten

\* The assessments of the sample data that are graded again: the exam graded
\* 3.3 and the open portfolio.
SampleRegraded == {2, 5}

\* Initial grades that callers pass to the constructors.
InitialNoteInputs == {None, 45}

PruefungsleistungsTyp == {"Klausur", "Advanced Workbook", "Portfolio"}

\* The kinds that callers pass to the factory.
TypInputs == {"Klausur"}

EctsInputs == {5, 10}

ZielNoteInputs == {20, 30}

ZielDauerInputs == {1}

UserIds == {"IU14125513", "u2"}

\* The name, email and role passed to the k-th create_user call.
Ident(k) ==
    [name |-> <<"A", "B", "C", "D">>[k], email |-> <<"a@x", "b@x", "c@x", "d@x">>[k],
     rolle |-> "Student"]

VARIABLES
    pl,            \* heap of Pruefungsleistung objects
    modul,         \* heap of Modul objects
    semester,      \* heap of Semester objects
    studiengang,   \* heap of Studiengang objects
    user,          \* heap of User objects
    users,         \* DashboardController.users: user_id -> User reference
    current_user,  \* DashboardController.current_user: User reference or None
    ret            \* the last call and what it returned or raised

vars == <<pl, modul, semester, studiengang, user, users, current_user, ret>>

\* ------------------------------------------------------------- arithmetic
RECURSIVE SumSeq(_)
SumSeq(s) == IF s = <<>> THEN 0 ELSE Head(s) + SumSeq(Tail(s))

\* The values x.x5 (in hundredths) whose nearest IEEE-754 double lies above
\* the decimal value, or equals it with an odd tenth below: round(x, 1)
\* takes these up, and every other x.x5 down.
TieUp == {5, 45, 55, 65, 75, 105, 135, 155, 175, 185, 235, 245, 275, 285,
          295, 335, 345, 375, 385, 395, 415, 445, 465, 475, 495, 515, 545,
          565, 575, 595, 615, 645, 665, 675, 695}

\* round(num / den, 1) for num in tenths: the result in tenths.
round1(num, den) ==
    LET f == num \div den
        r == num % den
    IN  IF 2 * r < den THEN f
        ELSE IF 2 * r > den THEN f + 1
        ELSE IF (10 * f + 5) \in TieUp THEN f + 1 ELSE f

\* --------------------------------------------------- IUBewertungsmaßstab
ist_bestanden(note) == note <= BESTANDEN_GRENZE

\* ------------------------------------------------------ Pruefungsleistung
\* Pruefungsleistung.__init__: the grade is stored as given, status "Offen".
NewPruefungsleistung(typ, note) ==
    [typ |-> typ, note |-> note, status |-> "Offen"]

\* The note setter, on a Pruefungsleistung record: the record afterwards.
SetNote(obj, value) ==
    IF value # None
    THEN [obj EXCEPT !.note = value,
                     !.status = IF ist_bestanden(value) THEN "Bestanden"
                                ELSE "Nicht bestanden"]
    ELSE [obj EXCEPT !.note = None, !.status = "Offen"]

\* A range check in place of the membership test.
SetNoteRaises_range(value) == value # None /\ (value < 10 \/ value > 50)

\* The setter raises ValueError for these values.
SetNoteRaises(value) == value # None /\ value \notin gueltige_noten

\* The stored status read in place of the grade.
pl_ist_bestanden_status(p) == pl[p].status = "Bestanden"

pl_ist_bestanden(p) == pl[p].note # None /\ ist_bestanden(pl[p].note)

wurde_abgelegt(p) == pl[p].note # None

pl_to_dict(p) ==
    [typ |-> pl[p].typ, note |-> pl[p].note, status |-> pl[p].status]

\* ------------------------------------------------------------------ Modul
\* Without the test for an empty list: all() of nothing is true.
modul_ist_bestanden_all(m) ==
    \A i \in 1..Len(modul[m].pruefungsleistungen) :
        pl_ist_bestanden(modul[m].pruefungsleistungen[i])

modul_ist_bestanden(m) ==
    IF modul[m].pruefungsleistungen = <<>> THEN FALSE
    ELSE \A i \in 1..Len(modul[m].pruefungsleistungen) :
            pl_ist_bestanden(modul[m].pruefungsleistungen[i])

\* A failed assessment decides the status before the others are graded.
get_status_early(m) ==
    IF modul[m].pruefungsleistungen = <<>> THEN "Nicht begonnen"
    ELSE IF \E i \in 1..Len(modul[m].pruefungsleistungen) :
                LET p == modul[m].pruefungsleistungen[i]
                IN  wurde_abgelegt(p) /\ ~pl_ist_bestanden(p)
         THEN "Nicht bestanden"
         ELSE IF \A i \in 1..Len(modul[m].pruefungsleistungen) :
                     wurde_abgelegt(modul[m].pruefungsleistungen[i])
              THEN "Bestanden"
              ELSE "In Bearbeitung"

get_status(m) ==
    IF modul[m].pruefungsleistungen = <<>> THEN "Nicht begonnen"
    ELSE LET alle_abgelegt ==
                 \A i \in 1..Len(modul[m].pruefungsleistungen) :
                     wurde_abgelegt(modul[m].pruefungsleistungen[i])
         IN  IF alle_abgelegt
             THEN IF modul_ist_bestanden(m) THEN "Bestanden"
                  ELSE "Nicht bestanden"
             ELSE "In Bearbeitung"

modul_erreichte_ects(m) == IF modul_ist_bestanden(m) THEN modul[m].ects ELSE 0

get_durchschnittsnote(m) ==
    LET hatNote(p) == pl[p].note # None
        refs == SelectSeq(modul[m].pruefungsleistungen, hatNote)
        noten == [i \in 1..Len(refs) |-> pl[refs[i]].note]
    IN  IF noten = <<>> THEN None
        ELSE round1(SumSeq(noten), Len(noten))

modul_to_dict(m) ==
    [ects |-> modul[m].ects,
     status |-> get_status(m),
     durchschnittsnote |-> get_durchschnittsnote(m),
     pruefungsleistungen |->
         [i \in 1..Len(modul[m].pruefungsleistungen) |->
             pl_to_dict(modul[m].pruefungsleistungen[i])]]

\* --------------------------------------------------------------- Semester
\* The modules that enter a weighted average: passed, with an average.
Gewertet(m) == modul_ist_bestanden(m) /\ get_durchschnittsnote(m) # None

\* The weighted loop without the test modul.ist_bestanden().
GewichteteNote_unbestanden(mods) ==
    LET hatNote(m) == get_durchschnittsnote(m) # None
        gew == SelectSeq(mods, hatNote)
        gewichtete_summe ==
            SumSeq([i \in 1..Len(gew) |->
                       get_durchschnittsnote(gew[i]) * modul[gew[i]].ects])
        gesamt_ects == SumSeq([i \in 1..Len(gew) |-> modul[gew[i]].ects])
    IN  IF gesamt_ects > 0 THEN round1(gewichtete_summe, gesamt_ects)
        ELSE None

\* The loop of Semester.durchschnittsnote and Studiengang.berechne_gesamtnote
\* over a list of Modul references.
GewichteteNote(mods) ==
    LET gew == SelectSeq(mods, Gewertet)
        gewichtete_summe ==
            SumSeq([i \in 1..Len(gew) |->
                       get_durchschnittsnote(gew[i]) * modul[gew[i]].ects])
        gesamt_ects == SumSeq([i \in 1..Len(gew) |-> modul[gew[i]].ects])
    IN  IF gesamt_ects > 0 THEN round1(gewichtete_summe, gesamt_ects)
        ELSE None

semester_erreichte_ects(s) ==
    SumSeq([i \in 1..Len(semester[s].module) |->
               modul_erreichte_ects(semester[s].module[i])])

gesamt_ects_semester(s) ==
    SumSeq([i \in 1..Len(semester[s].module) |->
               modul[semester[s].module[i]].ects])

durchschnittsnote(s) == GewichteteNote(semester[s].module)

\* The credits of all modules in place of the earned ones.
semester_to_dict_total(s) ==
    [gesamt_ects |-> gesamt_ects_semester(s),
     erreichte_ects |-> gesamt_ects_semester(s),
     durchschnittsnote |-> durchschnittsnote(s),
     module |-> [i \in 1..Len(semester[s].module) |->
                    modul_to_dict(semester[s].module[i])]]

semester_to_dict(s) ==
    [gesamt_ects |-> gesamt_ects_semester(s),
     erreichte_ects |-> semester_erreichte_ects(s),
     durchschnittsnote |-> durchschnittsnote(s),
     module |-> [i \in 1..Len(semester[s].module) |->
                    modul_to_dict(semester[s].module[i])]]

\* ------------------------------------------------------------ Studiengang
\* The credits of the first term only.
berechne_gesamt_ects_first(g) ==
    IF studiengang[g].semester = <<>> THEN 0
    ELSE semester_erreichte_ects(studiengang[g].semester[1])

berechne_gesamt_ects(g) ==
    SumSeq([i \in 1..Len(studiengang[g].semester) |->
               semester_erreichte_ects(studiengang[g].semester[i])])

\* All modules of all semesters of g, in iteration order.
RECURSIVE AlleModule(_)
AlleModule(sems) ==
    IF sems = <<>> THEN <<>>
    ELSE semester[Head(sems)].module \o AlleModule(Tail(sems))

berechne_gesamtnote(g) == GewichteteNote(AlleModule(studiengang[g].semester))

ist_im_zeitplan(g) ==
    LET aktuelles_semester == Len(studiengang[g].semester)
    IN  aktuelles_semester <= studiengang[g].ziel_dauer_semester

ziel_erreicht(g) ==
    LET gesamtnote == berechne_gesamtnote(g)
    IN  gesamtnote # None /\ gesamtnote <= studiengang[g].ziel_note

studiengang_to_dict(g) ==
    [ziel_note |-> studiengang[g].ziel_note,
     ziel_dauer_semester |-> studiengang[g].ziel_dauer_semester,
     gesamt_ects |-> berechne_gesamt_ects(g),
     gesamtnote |-> berechne_gesamtnote(g),
     im_zeitplan |-> ist_im_zeitplan(g),
     ziel_erreicht |-> ziel_erreicht(g),
     semester |-> [i \in 1..Len(studiengang[g].semester) |->
                      semester_to_dict(studiengang[g].semester[i])]]

\* ------------------------------------------------------------------- User
\* The first program in place of the last one.
get_aktueller_studiengang_first(u) ==
    IF user[u].studiengaenge # <<>>
    THEN user[u].studiengaenge[1]
    ELSE None

get_aktueller_studiengang(u) ==
    IF user[u].studiengaenge # <<>>
    THEN user[u].studiengaenge[Len(user[u].studiengaenge)]
    ELSE None

zeige_dashboard(u) ==
    LET aktueller_studiengang == get_aktueller_studiengang(u)
    IN  IF aktueller_studiengang = None
        THEN [kind |-> "error", error |-> "Kein Studiengang gefunden"]
        ELSE [kind |-> "dashboard",
              user |-> user[u].ident,
              studiengang |-> studiengang_to_dict(aktueller_studiengang),
              fortschritt |->
                  [gesamt_ects |-> berechne_gesamt_ects(aktueller_studiengang),
                   gesamtnote |-> berechne_gesamtnote(aktueller_studiengang),
                   im_zeitplan |-> ist_im_zeitplan(aktueller_studiengang),
                   ziel_erreicht |-> ziel_erreicht(aktueller_studiengang)]]

\* ---------------------------------------------------- DashboardController
get_dashboard_data ==
    IF current_user = None THEN [kind |-> "None"]
    ELSE zeige_dashboard(current_user)

\* ------------------------------------------------- DashboardVisualization
\* generate_html_dashboard, reduced to the values it computes and embeds in
\* the markup.  dashboard_data['studiengang'] on the error record raises
\* KeyError.
generate_html_dashboard ==
    LET render(dashboard_data) ==
            IF dashboard_data.kind = "None"
            THEN [kind |-> "placeholder"]
            ELSE IF dashboard_data.kind = "error"
            THEN [kind |-> "KeyError"]
            ELSE
            LET sg == dashboard_data.studiengang
                gesamt_ects_ziel == 180
                erreichte_ects == sg.gesamt_ects
                fortschritt_prozent ==
                    (200 * erreichte_ects + gesamt_ects_ziel)
                        \div (2 * gesamt_ects_ziel)
                aktuelles_semester == Len(sg.semester)
                ziel_note == sg.ziel_note
                aktuelle_note ==
                    IF sg.gesamtnote = None \/ sg.gesamtnote = 0 THEN 0
                    ELSE sg.gesamtnote
                note_differenz ==
                    IF aktuelle_note > 0 THEN ziel_note - aktuelle_note
                    ELSE 0
            IN  [kind |-> "html",
                 name |-> dashboard_data.user.name,
                 fortschritt_prozent |-> fortschritt_prozent,
                 erreichte_ects |-> erreichte_ects,
                 note_display |-> IF aktuelle_note > 0 THEN aktuelle_note
                                  ELSE None,
                 besser_als_ziel |-> note_differenz < 0,
                 note_differenz |-> note_differenz,
                 ziel_note |-> ziel_note,
                 aktuelles_semester |-> aktuelles_semester,
                 im_zeitplan_anzeige |-> TRUE,
                 zeilen |-> IF sg.semester # <<>>
                            THEN Len(sg.semester[1].module) ELSE 0]
    IN  render(get_dashboard_data)

\* ---------------------------------------------------------------- actions
Returned(op, val) == [op |-> op, val |-> val, exc |-> "-"]

Raised(op, exc) == [op |-> op, val |-> None, exc |-> exc]

Init ==
    /\ pl = <<>>
    /\ modul = <<>>
    /\ semester = <<>>
    /\ studiengang = <<>>
    /\ user = <<>>
    /\ users = [id \in UserIds |-> None]
    /\ current_user = None
    /\ ret = Returned("init", None)

create_user(id, ident) ==
    /\ Len(user) < MaxUser
    /\ user' = Append(user, [user_id |-> id, ident |-> ident,
                             studiengaenge |-> <<>>])
    /\ users' = [users EXCEPT ![id] = Len(user) + 1]
    /\ ret' = Returned("create_user", Len(user) + 1)
    /\ UNCHANGED <<pl, modul, semester, studiengang, current_user>>

\* A failed login that also logs the active student out.
login_user_logout(id) ==
    /\ IF users[id] # None
       THEN /\ current_user' = users[id]
            /\ ret' = Returned("login_user", TRUE)
       ELSE /\ current_user' = None
            /\ ret' = Returned("login_user", FALSE)
    /\ UNCHANGED <<pl, modul, semester, studiengang, user, users>>

login_user(id) ==
    /\ IF users[id] # None
       THEN /\ current_user' = users[id]
            /\ ret' = Returned("login_user", TRUE)
       ELSE /\ current_user' = current_user
            /\ ret' = Returned("login_user", FALSE)
    /\ UNCHANGED <<pl, modul, semester, studiengang, user, users>>

\* The new program put at the front of the student's list.
create_studiengang_front(ziel_note, ziel_dauer_semester) ==
    IF current_user = None
    THEN /\ ret' = Returned("create_studiengang", None)
         /\ UNCHANGED <<pl, modul, semester, studiengang, user, users,
                        current_user>>
    ELSE /\ Len(studiengang) < MaxStudiengang
         /\ studiengang' =
                Append(studiengang,
                       [ziel_note |-> ziel_note,
                        ziel_dauer_semester |-> ziel_dauer_semester,
                        semester |-> <<>>])
         /\ user' = [user EXCEPT ![current_user].studiengaenge =
                                     <<Len(studiengang) + 1>> \o @]
         /\ ret' = Returned("create_studiengang", Len(studiengang) + 1)
         /\ UNCHANGED <<pl, modul, semester, users, current_user>>

create_studiengang(ziel_note, ziel_dauer_semester) ==
    IF current_user = None
    THEN /\ ret' = Returned("create_studiengang", None)
         /\ UNCHANGED <<pl, modul, semester, studiengang, user, users,
                        current_user>>
    ELSE /\ Len(studiengang) < MaxStudiengang
         /\ studiengang' =
                Append(studiengang,
                       [ziel_note |-> ziel_note,
                        ziel_dauer_semester |-> ziel_dauer_semester,
                        semester |-> <<>>])
         /\ user' = [user EXCEPT ![current_user].studiengaenge =
                                     Append(@, Len(studiengang) + 1)]
         /\ ret' = Returned("create_studiengang", Len(studiengang) + 1)
         /\ UNCHANGED <<pl, modul, semester, users, current_user>>

\* The factory: an unknown kind raises, a known kind runs the constructor.
create_pruefungsleistung(typ, note) ==
    IF typ \notin PruefungsleistungsTyp
    THEN /\ ret' = Raised("create_pruefungsleistung", "ValueError")
         /\ UNCHANGED <<pl, modul, semester, studiengang, user, users,
                        current_user>>
    ELSE /\ Len(pl) < MaxPL
         /\ pl' = Append(pl, NewPruefungsleistung(typ, note))
         /\ ret' = Returned("create_pruefungsleistung", Len(pl) + 1)
         /\ UNCHANGED <<modul, semester, studiengang, user, users,
                        current_user>>

\* pruefungsleistung.note = value
note_setter(p, value) ==
    /\ IF SetNoteRaises(value)
       THEN /\ pl' = pl
            /\ ret' = Raised("note", "ValueError")
       ELSE /\ pl' = [pl EXCEPT ![p] = SetNote(@, value)]
            /\ ret' = Returned("note", None)
    /\ UNCHANGED <<modul, semester, studiengang, user, users, current_user>>

\* Modul(titel, ects)
new_modul(ects) ==
    /\ Len(modul) < MaxModul
    /\ modul' = Append(modul, [ects |-> ects, pruefungsleistungen |-> <<>>])
    /\ ret' = Returned("Modul", Len(modul) + 1)
    /\ UNCHANGED <<pl, semester, studiengang, user, users, current_user>>

add_pruefungsleistung(m, p) ==
    /\ Len(modul[m].pruefungsleistungen) < MaxLen
    /\ modul' = [modul EXCEPT ![m].pruefungsleistungen = Append(@, p)]
    /\ ret' = Returned("add_pruefungsleistung", None)
    /\ UNCHANGED <<pl, semester, studiengang, user, users, current_user>>

\* Semester(nummer, startdatum, enddatum)
new_semester ==
    /\ Len(semester) < MaxSemester
    /\ semester' = Append(semester, [module |-> <<>>])
    /\ ret' = Returned("Semester", Len(semester) + 1)
    /\ UNCHANGED <<pl, modul, studiengang, user, users, current_user>>

add_modul(s, m) ==
    /\ Len(semester[s].module) < MaxLen
    /\ semester' = [semester EXCEPT ![s].module = Append(@, m)]
    /\ ret' = Returned("add_modul", None)
    /\ UNCHANGED <<pl, modul, studiengang, user, users, current_user>>

\* The term put at the front of the program's list.
add_semester_front(g, s) ==
    /\ Len(studiengang[g].semester) < MaxLen
    /\ studiengang' = [studiengang EXCEPT ![g].semester = <<s>> \o @]
    /\ ret' = Returned("add_semester", None)
    /\ UNCHANGED <<pl, modul, semester, user, users, current_user>>

add_semester(g, s) ==
    /\ Len(studiengang[g].semester) < MaxLen
    /\ studiengang' = [studiengang EXCEPT ![g].semester = Append(@, s)]
    /\ ret' = Returned("add_semester", None)
    /\ UNCHANGED <<pl, modul, semester, user, users, current_user>>

\* A snapshot that also brings the stored status of every assessment up to
\* date.
call_get_dashboard_data_refresh ==
    /\ ret' = Returned("get_dashboard_data", get_dashboard_data)
    /\ pl' = [p \in 1..Len(pl) |-> SetNote(pl[p], pl[p].note)]
    /\ UNCHANGED <<modul, semester, studiengang, user, users, current_user>>

call_get_dashboard_data ==
    /\ ret' = Returned("get_dashboard_data", get_dashboard_data)
    /\ UNCHANGED <<pl, modul, semester, studiengang, user, users,
                   current_user>>

call_generate_html_dashboard ==
    /\ ret' = LET outcome(html) ==
                      IF html.kind = "KeyError"
                      THEN Raised("generate_html_dashboard", "KeyError")
                      ELSE Returned("generate_html_dashboard", html)
              IN  outcome(generate_html_dashboard)
    /\ UNCHANGED <<pl, modul, semester, studiengang, user, users,
                   current_user>>

SemesterAttached(s) ==
    \E g \in 1..Len(studiengang) : \E i \in 1..Len(studiengang[g].semester) :
        studiengang[g].semester[i] = s

PLAttached(p) ==
    \E m \in 1..Len(modul) : \E i \in 1..Len(modul[m].pruefungsleistungen) :
        modul[m].pruefungsleistungen[i] = p

ModulAttached(m) ==
    \E s \in 1..Len(semester) : \E i \in 1..Len(semester[s].module) :
        semester[s].module[i] = m

\* Assessment p belongs to a module that is part of a term.
ImSemester(p) ==
    \E m \in 1..Len(modul) :
        /\ ModulAttached(m)
        /\ \E i \in 1..Len(modul[m].pruefungsleistungen) :
               modul[m].pruefungsleistungen[i] = p

\* The registry: students, the active student, programs and their terms.
\* As the sample data does, the driver adds a term to a program before it
\* constructs the next term.
Next ==
    \/ \E id \in UserIds : create_user(id, Ident(Len(user) + 1))
    \/ \E id \in UserIds : login_user(id)
    \/ \E zn \in ZielNoteInputs, zd \in ZielDauerInputs :
           create_studiengang(zn, zd)
    \/ /\ \A s \in 1..Len(semester) : SemesterAttached(s)
       /\ new_semester
    \/ \E g \in 1..Len(studiengang), s \in 1..Len(semester) :
           ~SemesterAttached(s) /\ add_semester(g, s)
    \/ call_get_dashboard_data
    \/ call_generate_html_dashboard

Spec == Init /\ [][Next]_vars

\* The grading objects: assessments, modules and terms.  As the sample data
\* does, the driver builds one module at a time: it attaches an object once,
\* attaches an assessment or a module before it constructs the next one,
\* adds assessments to a module and enters their grades before it attaches
\* the module to a term,
\* and fills the latest term, opening the next one once that has a module.
NextNoten ==
    \/ /\ \A p \in 1..Len(pl) : PLAttached(p)
       /\ \E typ \in TypInputs, note \in InitialNoteInputs :
              create_pruefungsleistung(typ, note)
    \/ \E p \in 1..Len(pl), value \in NoteInputs :
           ~ImSemester(p) /\ note_setter(p, value)
    \/ /\ \A m \in 1..Len(modul) : ModulAttached(m)
       /\ \E ects \in EctsInputs : new_modul(ects)
    \/ \E m \in 1..Len(modul), p \in 1..Len(pl) :
           /\ ~PLAttached(p)
           /\ ~ModulAttached(m)
           /\ add_pruefungsleistung(m, p)
    \/ /\ \A s \in 1..Len(semester) : semester[s].module # <<>>
       /\ new_semester
    \/ \E s \in {Len(semester)} \ {0}, m \in 1..Len(modul) :
           ~ModulAttached(m) /\ add_modul(s, m)

SpecNoten == Init /\ [][NextNoten]_vars

\* ------------------------------------------------ building a whole program
\* The order of create_iu_medizinische_informatik_data: the student is
\* registered and logged in and the programs are created before the first
\* term is constructed; then terms, modules and assessments are built as in
\* NextNoten, the latest term is added to the active program, also more
\* than once, and grades and snapshots may follow at any time.
AufbauNoteInputs == {20}

AufbauZielNoteInputs == {20}

AufbauEctsInputs == {5}

NextAufbau ==
    \/ /\ semester = <<>>
       /\ user = <<>>
       /\ \E id \in UserIds : create_user(id, Ident(1))
    \/ /\ semester = <<>>
       /\ current_user = None
       /\ \E id \in UserIds : login_user(id)
    \/ /\ semester = <<>>
       /\ \E zn \in AufbauZielNoteInputs, zd \in ZielDauerInputs :
              create_studiengang(zn, zd)
    \/ /\ studiengang # <<>>
       /\ \A s \in 1..Len(semester) : semester[s].module # <<>>
       /\ new_semester
    \/ /\ current_user # None
       /\ \E g \in {get_aktueller_studiengang(current_user)} \ {None},
             s \in {Len(semester)} \ {0} :
              add_semester(g, s)
    \/ /\ \A p \in 1..Len(pl) : PLAttached(p)
       /\ \E typ \in TypInputs : create_pruefungsleistung(typ, None)
    \/ \E p \in 1..Len(pl), value \in AufbauNoteInputs :
           note_setter(p, value)
    \/ /\ semester # <<>>
       /\ \A m \in 1..Len(modul) : ModulAttached(m)
       /\ \E ects \in AufbauEctsInputs : new_modul(ects)
    \/ \E m \in 1..Len(modul), p \in 1..Len(pl) :
           /\ ~PLAttached(p)
           /\ ~ModulAttached(m)
           /\ add_pruefungsleistung(m, p)
    \/ \E s \in {Len(semester)} \ {0}, m \in 1..Len(modul) :
           ~ModulAttached(m) /\ add_modul(s, m)
    \/ call_get_dashboard_data

SpecAufbau == Init /\ [][NextAufbau]_vars

\* ------------------------------------------------------- the sample data
\* The controller that create_iu_medizinische_informatik_data returns: one
\* student, logged in, one program (target 2.0, 8 terms), one term, five
\* modules of 5 credits with one assessment each, the last one ungraded.
InitSample ==
    /\ pl = << NewPruefungsleistung("Advanced Workbook", 20),
               NewPruefungsleistung("Klausur", 33),
               NewPruefungsleistung("Klausur", 20),
               NewPruefungsleistung("Klausur", 20),
               NewPruefungsleistung("Portfolio", None) >>
    /\ modul = [m \in 1..5 |-> [ects |-> 5, pruefungsleistungen |-> <<m>>]]
    /\ semester = << [module |-> <<1, 2, 3, 4, 5>>] >>
    /\ studiengang = << [ziel_note |-> 20, ziel_dauer_semester |-> 8,
                         semester |-> <<1>>] >>
    /\ user = << [user_id |-> "IU14125513",
                  ident |-> [name |-> "Christine Münzberg",
                             email |-> "christine_muenzberg@web.de",
                             rolle |-> "Student"],
                  studiengaenge |-> <<1>>] >>
    /\ users = [id \in UserIds |-> IF id = "IU14125513" THEN 1 ELSE None]
    /\ current_user = 1
    /\ ret = Returned("create_iu_medizinische_informatik_data", None)

\* What the program does with the sample data, grades entered later, and a
\* second program of the student that repeats the term.
NextSample ==
    \/ \E p \in SampleRegraded, value \in SampleNoteInputs :
           note_setter(p, value)
    \/ \E zn \in ZielNoteInputs, zd \in ZielDauerInputs :
           create_studiengang(zn, zd)
    \/ \E g \in 1..Len(studiengang), s \in 1..Len(semester) :
           add_semester(g, s)
    \/ \E id \in UserIds : login_user(id)
    \/ call_get_dashboard_data
    \/ call_generate_html_dashboard

SpecSample == InitSample /\ [][NextSample]_vars

\* ------------------------------------------------------------ properties
Permitted == {10, 13, 17, 20, 23, 27, 30, 33, 37, 40, 50}

\* C1: setGrade(v) with a non-null v outside the permitted set signals
\* InvalidGrade (ValueError) and leaves the grade and the status of every
\* assessment as they were, whether the assessment was graded or not.
C1_InvalidGradeLeavesState ==
    [][\A p \in 1..Len(pl) :
          \A v \in SampleNoteInputs \ (Permitted \cup {None}) :
          note_setter(p, v) =>
              /\ ret'.op = "note"
              /\ ret'.exc = "ValueError"
              /\ pl'[p].note = pl[p].note
              /\ pl'[p].status = pl[p].status
              /\ pl' = pl]_vars

\* An invalid grade has been refused on a graded assessment.
C1_Witness ==
    /\ ret.op = "note"
    /\ ret.exc = "ValueError"
    /\ \E p \in 1..Len(pl) : pl[p].note \in Permitted
    /\ \E p \in 1..Len(pl) : pl[p].note = None

\* C2: every assessment's grade is null or a member of the permitted set,
\* also when it was supplied as the initial grade at construction.
C2_GradeAlwaysPermitted ==
    \A p \in 1..Len(pl) : pl[p].note \in Permitted \cup {None}

\* C3: the status of every assessment agrees with its grade: "Offen" iff the
\* grade is null, "Bestanden" iff it is non-null and at most 4.0, "Nicht
\* bestanden" iff it is non-null and above 4.0; status passed iff isPassed().
C3_StatusAgreesWithGrade ==
    \A p \in 1..Len(pl) :
        /\ pl[p].status = "Offen" <=> pl[p].note = None
        /\ pl[p].status = "Bestanden" <=>
               (pl[p].note # None /\ pl[p].note <= 40)
        /\ pl[p].status = "Nicht bestanden" <=>
               (pl[p].note # None /\ pl[p].note > 40)
        /\ pl[p].status = "Bestanden" <=> pl_ist_bestanden(p)

\* The grades of the assessments of module m, in order.
NotenVon(m) ==
    [i \in 1..Len(modul[m].pruefungsleistungen) |->
        pl[modul[m].pruefungsleistungen[i]].note]

AllePassend(m) ==
    /\ Len(NotenVon(m)) >= 1
    /\ \A i \in 1..Len(NotenVon(m)) :
           NotenVon(m)[i] # None /\ NotenVon(m)[i] <= 40

\* C4: a module is passed iff it has at least one assessment and every one
\* has a non-null grade at or below 4.0; its earned credits are its credit
\* value when passed and 0 otherwise.
C4_ModulePassedAndCredits ==
    \A m \in 1..Len(modul) :
        /\ modul_ist_bestanden(m) <=> AllePassend(m)
        /\ modul_erreichte_ects(m) = IF AllePassend(m) THEN modul[m].ects
                                     ELSE 0

\* A passed module with two assessments next to an unpassed one with an
\* ungraded or failed assessment.
C4_Witness ==
    \E m1, m2 \in 1..Len(modul) :
        /\ Len(modul[m1].pruefungsleistungen) >= 1
        /\ modul_ist_bestanden(m1)
        /\ modul_erreichte_ects(m1) = modul[m1].ects
        /\ Len(modul[m2].pruefungsleistungen) >= 1
        /\ ~modul_ist_bestanden(m2)
        /\ modul_erreichte_ects(m2) = 0

\* C5: status() is NotStarted iff the module has no assessments, InProgress
\* iff it has one and some grade is null, Passed iff it has one and all are
\* graded and pass, Failed iff it has one and all are graded and one is above
\* 4.0; status() = Passed iff isPassed().
C5_ModuleStatus ==
    \A m \in 1..Len(modul) :
        LET n == NotenVon(m)
            some == Len(n) >= 1
            ungraded == \E i \in 1..Len(n) : n[i] = None
            failing == \E i \in 1..Len(n) : n[i] # None /\ n[i] > 40
        IN  /\ get_status(m) = "Nicht begonnen" <=> ~some
            /\ get_status(m) = "In Bearbeitung" <=> (some /\ ungraded)
            /\ get_status(m) = "Bestanden" <=>
                   (some /\ ~ungraded /\ ~failing)
            /\ get_status(m) = "Nicht bestanden" <=>
                   (some /\ ~ungraded /\ failing)
            /\ get_status(m) = "Bestanden" <=> modul_ist_bestanden(m)

\* A module in progress although one of its assessments is graded 5.0.
C5_Witness ==
    \E m \in 1..Len(modul) :
        /\ get_status(m) = "In Bearbeitung"
        /\ \E i \in 1..Len(NotenVon(m)) : NotenVon(m)[i] = 50
        /\ \E i \in 1..Len(NotenVon(m)) : NotenVon(m)[i] = None

\* The passed modules with an average among mods, as a sequence of
\* <<average, credits>>.
Gewertete(mods) ==
    LET zaehlt(m) == AllePassend(m) /\ get_durchschnittsnote(m) # None
        gew == SelectSeq(mods, zaehlt)
    IN  [i \in 1..Len(gew) |-> <<get_durchschnittsnote(gew[i]),
                                 modul[gew[i]].ects>>]

SummeNoteMalEcts(gw) == SumSeq([i \in 1..Len(gw) |-> gw[i][1] * gw[i][2]])

SummeEcts(gw) == SumSeq([i \in 1..Len(gw) |-> gw[i][2]])

\* r (in tenths) is num / den rounded to one decimal place: a tenth nearest
\* to the quotient.
AufEineStelle(r, num, den) ==
    /\ r # None
    /\ 2 * (r * den - num) <= den
    /\ 2 * (num - r * den) <= den

\* r is the credit-weighted mean of gw rounded to one decimal, None if gw is
\* empty.
IstGewichtetesMittel(r, gw) ==
    IF gw = <<>> THEN r = None
    ELSE AufEineStelle(r, SummeNoteMalEcts(gw), SummeEcts(gw))

\* The passed modules of the term are two, of 5 credits each, with averages
\* 2.0 and 3.3.
C6_Beispiel(s) ==
    LET gw == Gewertete(semester[s].module)
    IN  gw \in {<< <<20, 5>>, <<33, 5>> >>, << <<33, 5>>, <<20, 5>> >>}

\* C6 as claimed: the weighted average of a term is the credit-weighted mean
\* of its passed modules' averages rounded to one decimal, null without such
\* a module, and 2.7 for two passed modules of 5 credits with averages 2.0
\* and 3.3.
C6_WeightedAverage27 ==
    \A s \in 1..Len(semester) :
        /\ IstGewichtetesMittel(durchschnittsnote(s),
                                Gewertete(semester[s].module))
        /\ C6_Beispiel(s) => durchschnittsnote(s) = 27

\* C6 as amended: the same, with the result 2.6 for the two modules: round()
\* takes the double nearest to 2.65, which lies below 2.65, down.
C6_WeightedAverage26 ==
    \A s \in 1..Len(semester) :
        /\ IstGewichtetesMittel(durchschnittsnote(s),
                                Gewertete(semester[s].module))
        /\ C6_Beispiel(s) => durchschnittsnote(s) = 26

\* A term that has just received the second of the two modules of the
\* example and averages 2.6.
C6_Witness ==
    /\ \E s \in 1..Len(semester) :
           C6_Beispiel(s) /\ durchschnittsnote(s) = 26
    /\ ret.op = "add_modul"

\* The modules of all terms of program g, term by term.
RECURSIVE ModuleVon(_)
ModuleVon(sems) ==
    IF sems = <<>> THEN <<>>
    ELSE semester[Head(sems)].module \o ModuleVon(Tail(sems))

\* The sample program as create_iu_medizinische_informatik_data leaves it.
C7_Sample ==
    /\ [p \in 1..Len(pl) |-> pl[p].note] = <<20, 33, 20, 20, None>>
    /\ [m \in 1..Len(modul) |-> modul[m].ects] = <<5, 5, 5, 5, 5>>
    /\ studiengang[1].semester = <<1>>
    /\ studiengang[1].ziel_note = 20
    /\ studiengang[1].ziel_dauer_semester = 8

\* C7: the aggregates of a program range over all modules of all its terms:
\* total earned credits are the credits of the passed modules, the overall
\* grade is their credit-weighted mean rounded to one decimal (null if
\* none), on schedule iff number of terms <= target duration, goal met iff
\* the overall grade is non-null and <= the target grade; for the sample
\* program they are 20, 2.3, true and false.
C7_ProgramAggregates ==
    /\ \A g \in 1..Len(studiengang) :
           LET mods == ModuleVon(studiengang[g].semester)
               credits == [i \in 1..Len(mods) |->
                              IF AllePassend(mods[i]) THEN modul[mods[i]].ects
                              ELSE 0]
           IN  /\ berechne_gesamt_ects(g) = SumSeq(credits)
               /\ IstGewichtetesMittel(berechne_gesamtnote(g),
                                       Gewertete(mods))
               /\ ist_im_zeitplan(g) <=>
                      Len(studiengang[g].semester)
                          <= studiengang[g].ziel_dauer_semester
               /\ ziel_erreicht(g) <=>
                      /\ berechne_gesamtnote(g) # None
                      /\ berechne_gesamtnote(g) <= studiengang[g].ziel_note
    /\ C7_Sample =>
           /\ berechne_gesamt_ects(1) = 20
           /\ berechne_gesamtnote(1) = 23
           /\ ist_im_zeitplan(1) = TRUE
           /\ ziel_erreicht(1) = FALSE

\* The sample program next to a second program that has the term twice and
\* is behind schedule, after the dashboard data have been read.
C7_Witness ==
    /\ C7_Sample
    /\ berechne_gesamt_ects(1) = 20
    /\ Len(studiengang) = 2
    /\ Len(studiengang[2].semester) = 2
    /\ ~ist_im_zeitplan(2)
    /\ ziel_erreicht(2)
    /\ berechne_gesamt_ects(2) = 40
    /\ ret.op = "get_dashboard_data"

\* The snapshot d shows student u and program g.
ZeigtProgramm(d, u, g) ==
    /\ d.kind = "dashboard"
    /\ d.user = user[u].ident
    /\ d.studiengang.ziel_note = studiengang[g].ziel_note
    /\ d.studiengang.ziel_dauer_semester = studiengang[g].ziel_dauer_semester
    /\ Len(d.studiengang.semester) = Len(studiengang[g].semester)
    /\ d.studiengang.gesamt_ects = berechne_gesamt_ects(g)
    /\ d.studiengang.gesamtnote = berechne_gesamtnote(g)
    /\ d.fortschritt = [gesamt_ects |-> berechne_gesamt_ects(g),
                        gesamtnote |-> berechne_gesamtnote(g),
                        im_zeitplan |-> ist_im_zeitplan(g),
                        ziel_erreicht |-> ziel_erreicht(g)]

LetztesProgramm(u) == user[u].studiengaenge[Len(user[u].studiengaenge)]

C9_ReportNeverFails ==
    generate_html_dashboard.kind \in {"html", "placeholder"}

\* C10: setActive(id) returns true and makes the student registered under id
\* the active one when id is registered; otherwise it returns false and
\* leaves the active student and the registry mapping as they were.
C10_LoginUser ==
    [][\A id \in UserIds :
          login_user(id) =>
              /\ ret'.op = "login_user"
              /\ users' = users
              /\ user' = user
              /\ IF users[id] # None
                 THEN ret'.val = TRUE /\ current_user' = users[id]
                 ELSE ret'.val = FALSE /\ current_user' = current_user]_vars

\* A login with an unregistered identifier has failed while a student is
\* active.
C10_Witness ==
    /\ ret.op = "login_user"
    /\ ret.val = FALSE
    /\ current_user # None
    /\ \E id \in UserIds : users[id] = None

\* C11: createProgram returns null and changes no student when there is no
\* active student; otherwise it appends exactly one new program to the end
\* of the active student's list, changes no other student, and the new
\* program is then the active student's active program.
C11_CreateStudiengang ==
    [][\A zn \in ZielNoteInputs, zd \in ZielDauerInputs :
          create_studiengang(zn, zd) =>
              /\ ret'.op = "create_studiengang"
              /\ IF current_user = None
                 THEN /\ ret'.val = None
                      /\ user' = user
                      /\ studiengang' = studiengang
                 ELSE LET neu == Len(studiengang) + 1
                          liste == user'[current_user].studiengaenge
                      IN  /\ ret'.val = neu
                          /\ Len(studiengang') = neu
                          /\ studiengang'[neu].ziel_note = zn
                          /\ studiengang'[neu].ziel_dauer_semester = zd
                          /\ liste = Append(user[current_user].studiengaenge,
                                            neu)
                          /\ liste[Len(liste)] = neu
                          /\ Len(user') = Len(user)
                          /\ \A u \in 1..Len(user) :
                                 u # current_user => user'[u] = user[u]
                          /\ current_user' = current_user]_vars

\* The active student has received a second program while another student
\* is registered.
C11_Witness ==
    /\ ret.op = "create_studiengang"
    /\ current_user # None
    /\ Len(user) = 2
    /\ Len(user[current_user].studiengaenge) = 2
    /\ ret.val = user[current_user].studiengaenge[2]

\* The entry t of a snapshot shows term s: its credits, its average, and
\* the status and the average of each of its modules.
ZeigtSemester(t, s) ==
    /\ t.gesamt_ects = gesamt_ects_semester(s)
    /\ t.erreichte_ects = semester_erreichte_ects(s)
    /\ t.durchschnittsnote = durchschnittsnote(s)
    /\ Len(t.module) = Len(semester[s].module)
    /\ \A j \in 1..Len(semester[s].module) :
           /\ t.module[j].status = get_status(semester[s].module[j])
           /\ t.module[j].durchschnittsnote
                  = get_durchschnittsnote(semester[s].module[j])

\* C12: the aggregates in a snapshot that dashboardData() has returned for
\* an active student with an active program equal the derivations called
\* directly on the program, its terms and modules; the progress summary and
\* the program tree agree.
C12_SnapshotRoundTrip ==
    (ret.op = "get_dashboard_data" /\ ret.val.kind = "dashboard") =>
        LET d == ret.val
            g == LetztesProgramm(current_user)
            t == d.studiengang
            f == d.fortschritt
        IN  /\ current_user # None
            /\ user[current_user].studiengaenge # <<>>
            /\ f.gesamt_ects = berechne_gesamt_ects(g)
            /\ f.gesamtnote = berechne_gesamtnote(g)
            /\ f.im_zeitplan = ist_im_zeitplan(g)
            /\ f.ziel_erreicht = ziel_erreicht(g)
            /\ t.gesamt_ects = f.gesamt_ects
            /\ t.gesamtnote = f.gesamtnote
            /\ t.im_zeitplan = f.im_zeitplan
            /\ t.ziel_erreicht = f.ziel_erreicht
            /\ Len(t.semester) = Len(studiengang[g].semester)
            /\ \A i \in 1..Len(studiengang[g].semester) :
                   ZeigtSemester(t.semester[i], studiengang[g].semester[i])

\* A snapshot of the sample program has been returned after the exam graded
\* 3.3 was graded 5.0: 15 of the 25 credits of the term are earned.
C12_Witness ==
    /\ ret.op = "get_dashboard_data"
    /\ ret.val.kind = "dashboard"
    /\ pl[2].note = 50
    /\ LetztesProgramm(current_user) = 1
    /\ ret.val.fortschritt.gesamt_ects = 15
    /\ ret.val.studiengang.semester[1].gesamt_ects = 25
    /\ ret.val.studiengang.semester[1].erreichte_ects = 15
    /\ ret.val.studiengang.semester[1].module[2].status = "Nicht bestanden"

\* The grades module m has now, without the ungraded assessments.
VergebeneNoten(m) ==
    LET vergeben(n) == n # None
    IN  SelectSeq(NotenVon(m), vergeben)

\* The derivations of module m have the values the grades of its
\* assessments determine now.
ModulAktuell(m) ==
    /\ modul_ist_bestanden(m) <=> AllePassend(m)
    /\ modul_erreichte_ects(m) = IF AllePassend(m) THEN modul[m].ects ELSE 0
    /\ get_status(m) =
           IF NotenVon(m) = <<>> THEN "Nicht begonnen"
           ELSE IF Len(VergebeneNoten(m)) < Len(NotenVon(m))
                THEN "In Bearbeitung"
                ELSE IF AllePassend(m) THEN "Bestanden"
                     ELSE "Nicht bestanden"
    /\ IF VergebeneNoten(m) = <<>> THEN get_durchschnittsnote(m) = None
       ELSE AufEineStelle(get_durchschnittsnote(m),
                          SumSeq(VergebeneNoten(m)), Len(VergebeneNoten(m)))

\* The credits that the modules mods earn with the grades they have now.
ErreichtJetzt(mods) ==
    SumSeq([i \in 1..Len(mods) |->
               IF AllePassend(mods[i]) THEN modul[mods[i]].ects ELSE 0])

\* Every derivation of every module, term and program has the value the
\* grades determine now.
AlleAktuell ==
    /\ \A m \in 1..Len(modul) : ModulAktuell(m)
    /\ \A s \in 1..Len(semester) :
           /\ semester_erreichte_ects(s) = ErreichtJetzt(semester[s].module)
           /\ gesamt_ects_semester(s) =
                  SumSeq([i \in 1..Len(semester[s].module) |->
                             modul[semester[s].module[i]].ects])
           /\ IstGewichtetesMittel(durchschnittsnote(s),
                                   Gewertete(semester[s].module))
    /\ \A g \in 1..Len(studiengang) :
           LET mods == ModuleVon(studiengang[g].semester)
           IN  /\ berechne_gesamt_ects(g) = ErreichtJetzt(mods)
               /\ IstGewichtetesMittel(berechne_gesamtnote(g),
                                       Gewertete(mods))
               /\ ziel_erreicht(g) <=>
                      /\ Gewertete(mods) # <<>>
                      /\ berechne_gesamtnote(g) <= studiengang[g].ziel_note

C14_DerivationsChangeNothing ==
    [][(ret'.op = "get_dashboard_data" /\ call_get_dashboard_data) =>
          /\ UNCHANGED <<pl, modul, semester, studiengang, user, users,
                         current_user>>
          /\ ret'.val = get_dashboard_data
          /\ ret.op = "get_dashboard_data" => ret' = ret]_vars

\* A snapshot of a program has been returned while an assessment still has
\* the status of its construction next to a grade.
C14_Witness ==
    /\ ret.op = "get_dashboard_data"
    /\ ret.val.kind = "dashboard"
    /\ \E p \in 1..Len(pl) : pl[p].note # None /\ pl[p].status = "Offen"
    /\ \E p \in 1..Len(pl) : pl[p].status = "Nicht bestanden"

\* neu is alt, or alt with one more element at the end.
NurAngehaengt(alt, neu) ==
    \/ neu = alt
    \/ /\ Len(neu) = Len(alt) + 1
       /\ SubSeq(neu, 1, Len(alt)) = alt

\* C15: in every step each assessment list of a module, module list of a
\* term, term list of a program and program list of a student keeps its
\* contents as a prefix and grows by at most one element at the end; it
\* grows only in a step of its add call (createProgram for the program
\* list), which changes no other list, and no object is dropped.  The lists
\* are as long as MaxLen allows at most.
C15_AppendOnly ==
    [][/\ Len(modul') >= Len(modul)
       /\ Len(semester') >= Len(semester)
       /\ Len(studiengang') >= Len(studiengang)
       /\ Len(user') >= Len(user)
       /\ \A m \in 1..Len(modul) :
              /\ NurAngehaengt(modul[m].pruefungsleistungen,
                               modul'[m].pruefungsleistungen)
              /\ modul'[m] # modul[m] =>
                     /\ ret'.op = "add_pruefungsleistung"
                     /\ \A m2 \in 1..Len(modul) :
                            m2 # m => modul'[m2] = modul[m2]
                     /\ UNCHANGED <<semester, studiengang, user>>
       /\ \A t \in 1..Len(semester) :
              /\ NurAngehaengt(semester[t].module, semester'[t].module)
              /\ semester'[t] # semester[t] =>
                     /\ ret'.op = "add_modul"
                     /\ \A t2 \in 1..Len(semester) :
                            t2 # t => semester'[t2] = semester[t2]
                     /\ UNCHANGED <<modul, studiengang, user>>
       /\ \A g \in 1..Len(studiengang) :
              /\ NurAngehaengt(studiengang[g].semester,
                               studiengang'[g].semester)
              /\ studiengang'[g] # studiengang[g] =>
                     /\ ret'.op = "add_semester"
                     /\ \A g2 \in 1..Len(studiengang) :
                            g2 # g => studiengang'[g2] = studiengang[g2]
                     /\ UNCHANGED <<modul, semester, user>>
       /\ \A u \in 1..Len(user) :
              /\ NurAngehaengt(user[u].studiengaenge,
                               user'[u].studiengaenge)
              /\ user'[u] # user[u] =>
                     /\ ret'.op = "create_studiengang"
                     /\ \A u2 \in 1..Len(user) :
                            u2 # u => user'[u2] = user[u2]
                     /\ UNCHANGED <<modul, semester>>]_vars

\* The active program has received its term a second time; the term has a
\* module with a graded assessment.
C15_Witness ==
    /\ ret.op = "add_semester"
    /\ current_user # None
    /\ user[current_user].studiengaenge # <<>>
    /\ LET g == LetztesProgramm(current_user)
       IN  /\ Len(studiengang[g].semester) = 2
           /\ studiengang[g].semester[1] = studiengang[g].semester[2]
           /\ LET t == studiengang[g].semester[1]
              IN  /\ semester[t].module # <<>>
                  /\ modul[semester[t].module[1]].pruefungsleistungen # <<>>
                  /\ pl[modul[semester[t].module[1]].pruefungsleistungen[1]]
                         .note = 20

\* C16: if there is an active student, it is the student that the registry
\* maps its identifier to.
C16_ActiveStudentIsRegistered ==
    current_user # None => users[user[current_user].user_id] = current_user

\* ret holds a report document that generate_html_dashboard has returned.
BerichtErzeugt ==
    /\ ret.op = "generate_html_dashboard"
    /\ ret.exc = "-"
    /\ ret.val.kind = "html"

\* C17: a report says "besser als Ziel" only when the overall grade of the
\* active program is non-null and numerically below the target grade; it
\* does not for the sample data with overall 2.3 and target 2.0.
C17_BetterThanGoalOnlyWhenBelow ==
    (BerichtErzeugt /\ ret.val.besser_als_ziel) =>
        LET g == LetztesProgramm(current_user)
        IN  /\ berechne_gesamtnote(g) # None
            /\ berechne_gesamtnote(g) < studiengang[g].ziel_note

\* C18: a report shows "Im Zeitplan" only if the active program is on
\* schedule: its number of terms does not exceed its target duration.
C18_OnScheduleOnlyWhenOnSchedule ==
    (BerichtErzeugt /\ ret.val.im_zeitplan_anzeige) =>
        LET g == LetztesProgramm(current_user)
        IN  /\ ist_im_zeitplan(g)
            /\ Len(studiengang[g].semester)
                   <= studiengang[g].ziel_dauer_semester
====
